---- MODULE Spec2Model ----
(***************************************************************************)
(* Podminator: the pod tree reconciliation and session-state engine.       *)
(*                                                                         *)
(* The model follows the AppState revision of the program (app_state.go,   *)
(* utils.go, the UI file with setupEventHandlers).  Goroutines are split   *)
(* at their I/O calls and between the two tree-view writes SetRoot and     *)
(* SetCurrentNode; handlers that tview runs on the interactive loop are    *)
(* task 0, goroutines started with "go func()" are tasks 1..MaxBg.         *)
(*                                                                         *)
(* Go strings are TLA+ strings; where the code looks inside a string       *)
(* (strings.ToLower, strings.Contains, sort.Strings) the model works on    *)
(* the string's characters, given by Chars.                                *)
(*                                                                         *)
(* tview is outside the repository: SetRoot, SetCurrentNode, GetRoot and   *)
(* GetCurrentNode are modelled as plain field accesses, GetLevel as the    *)
(* node's depth below the root, SetCurrentOption and SetText as calling    *)
(* the registered callbacks.  A tree node is an object: the model keeps    *)
(* the displayed tree, and of a node reference whether its node is in it.  *)
(***************************************************************************)
EXTENDS Integers, Sequences, FiniteSets, TLC

(***************************************************************************)
(* Bounds of the model.                                                    *)
(***************************************************************************)
\* goroutines that may run updatePodTreeView at the same time ('r', ticker)
MaxBg == 1
\* goroutines of contextSelectHandler that may run at the same time
MaxSwitch == 1
\* key presses and ticker ticks of a run
MaxInputs == 3

(***************************************************************************)
(* Strings.                                                                *)
(***************************************************************************)
PlaceholderNs == "Select a namespace"
AllNs == "all"
RootText == "Namespaces"
PlaceholderText == "Please select a namespace to load pods"
\* the texts of the output panel
OutputText == "Output will be displayed here"
WarningText == "[red]Warning:[-] Displaying all namespaces may affect performance."
NotInitializedText == "Kubernetes clients are not initialized yet"

NoMatchText == "No matching pods found"

\* the characters of the strings the program looks into
Chars(s) ==
    CASE s = "" -> << >>
      [] s = "a" -> <<"a">>
      [] s = "b" -> <<"b">>
      [] s = "all" -> <<"a", "l", "l">>
      [] s = "Select a namespace" ->
            <<"S", "e", "l", "e", "c", "t", " ", "a", " ",
              "n", "a", "m", "e", "s", "p", "a", "c", "e">>
      [] s = "web-1" -> <<"w", "e", "b", "-", "1">>
      [] s = "web-2" -> <<"w", "e", "b", "-", "2">>
      [] s = "cache-1" -> <<"c", "a", "c", "h", "e", "-", "1">>
      [] s = "WEB" -> <<"W", "E", "B">>
      [] s = "we" -> <<"w", "e">>
      [] s = "web" -> <<"w", "e", "b">>
      [] s = "Web-2" -> <<"W", "e", "b", "-", "2">>
      [] s = "api-1" -> <<"a", "p", "i", "-", "1">>
      [] s = "1" -> <<"1">>
      [] s = "zz" -> <<"z", "z">>

\* the characters above, in byte order
ByteOrder ==
    <<" ", "-", "1", "2", "B", "E", "S", "W",
      "a", "b", "c", "e", "h", "i", "l", "m", "n", "p", "s", "t", "w", "z">>

Code(c) == CHOOSE i \in 1..Len(ByteOrder) : ByteOrder[i] = c

\* strings.ToLower on one character
LowerChar(c) ==
    CASE c = "B" -> "b"
      [] c = "E" -> "e"
      [] c = "S" -> "s"
      [] c = "W" -> "w"
      [] OTHER -> c

ToLower(cs) == [i \in 1..Len(cs) |-> LowerChar(cs[i])]

\* strings.Contains
Contains(cs, sub) ==
    \E i \in 0..(Len(cs) - Len(sub)) : SubSeq(cs, i + 1, i + Len(sub)) = sub

\* the order of Go's string comparison (bytewise), used by sort.Strings
RECURSIVE SeqLess(_, _)
SeqLess(x, y) ==
    IF y = << >> THEN FALSE
    ELSE IF x = << >> THEN TRUE
    ELSE IF Code(Head(x)) # Code(Head(y)) THEN Code(Head(x)) < Code(Head(y))
    ELSE SeqLess(Tail(x), Tail(y))

StrLess(s, t) == SeqLess(Chars(s), Chars(t))

\* sort.Strings on the keys of a map
\* a sort into descending order
RECURSIVE SortStringsDescending(_)
SortStringsDescending(S) ==
    IF S = {} THEN << >>
    ELSE LET m == CHOOSE x \in S : \A y \in S \ {x} : StrLess(y, x)
         IN  <<m>> \o SortStringsDescending(S \ {m})

RECURSIVE SortStrings(_)
SortStrings(S) ==
    IF S = {} THEN << >>
    ELSE LET m == CHOOSE x \in S : \A y \in S \ {x} : StrLess(x, y)
         IN  <<m>> \o SortStrings(S \ {m})

Range(q) == {q[i] : i \in 1..Len(q)}

(***************************************************************************)
(* The cluster API, as the program sees it.                                *)
(***************************************************************************)
Contexts == {"A", "B"}
NoClient == "none"

\* Namespaces().List: the namespaces of a context
NamespaceList(ctx) == <<"a", "b">>

PodRecord(ns, name) == [name |-> name, namespace |-> ns]

\* Resource(pods).Namespace(ns).List: the lists the API may answer with.
\* Pods come and go, so a list is one of several; a namespace name the
\* cluster does not have lists no pod, the empty name lists every pod.
PodListAnswers(ctx, ns) ==
    CASE ns = "a" -> {<<PodRecord("a", "web-1"), PodRecord("a", "web-2")>>,
                      <<PodRecord("a", "web-1")>>}
      [] ns = "b" -> {<<PodRecord("b", "cache-1")>>}
      [] ns = ""  -> {<<PodRecord("a", "web-1"), PodRecord("a", "web-2"),
                        PodRecord("b", "cache-1")>>}
      [] OTHER    -> {<< >>}

(***************************************************************************)
(* Go maps (map[string]...) as functions on a finite set of keys.          *)
(***************************************************************************)
EmptyMap == [k \in {} |-> << >>]

MapPut(m, k, v) == [x \in DOMAIN m \cup {k} |-> IF x = k THEN v ELSE m[x]]

(***************************************************************************)
(* fetchNamespacesWithPods, its parts between the I/O calls.               *)
(***************************************************************************)
\* a filter that compares the lower-cased name with the query as typed
MatchingPodsAsTyped(podList, searchQuery) ==
    SelectSeq(podList,
              LAMBDA podMeta : Contains(ToLower(Chars(podMeta.name)),
                                        Chars(searchQuery)))

\* the filter loop body: the pods whose name contains the query,
\* both lower-cased
MatchingPods(podList, searchQuery) ==
    SelectSeq(podList,
              LAMBDA podMeta : Contains(ToLower(Chars(podMeta.name)),
                                        ToLower(Chars(searchQuery))))

\* the filter over the whole map: a namespace left with no pod is deleted
FilterByQuery(namespacesWithPods, searchQuery) ==
    IF searchQuery = "" THEN namespacesWithPods
    ELSE LET matching == [k \in DOMAIN namespacesWithPods |->
                             MatchingPods(namespacesWithPods[k], searchQuery)]
         IN  [k \in {x \in DOMAIN matching : Len(matching[x]) > 0} |->
                 matching[k]]

\* one failed list fails them all: nothing is entered unless every
\* namespace of the cluster has answered
CollectAllOrNothing(answers) ==
    IF \E ctx \in Contexts : DOMAIN answers = Range(NamespaceList(ctx))
    THEN [n \in {x \in DOMAIN answers : Len(answers[x]) > 0} |-> answers[n]]
    ELSE EmptyMap

\* scope "all": answers maps each listed namespace to its pod list;
\* a namespace is entered only with at least one pod
CollectAll(answers) ==
    [n \in {x \in DOMAIN answers : Len(answers[x]) > 0} |-> answers[n]]

\* an entry also for an empty list
CollectOneAlways(key, podList) == [n \in {key} |-> podList]

\* one namespace: the list is entered under the namespace selected when
\* the answer arrives (state.selectedNamespace is read again then)
CollectOne(key, podList) ==
    IF Len(podList) > 0 THEN [n \in {key} |-> podList] ELSE EmptyMap

(***************************************************************************)
(* The tree.  A root has level-1 children: namespace nodes, each with one  *)
(* "Pods" group holding the pod nodes, or the single informational leaf.   *)
(* owner is the task whose local rootNode the tree is, until that call     *)
(* returns; via is the context of the handles its pods were listed with.   *)
(***************************************************************************)
NoOwner == -1

\* a namespace node that is expanded whatever flag it is given
NsNodeAlwaysExpanded(text, expanded, pods) ==
    [text |-> text, expanded |-> TRUE, isNs |-> TRUE,
     podsExpanded |-> TRUE, pods |-> pods]

NsNode(text, expanded, pods) ==
    [text |-> text, expanded |-> expanded, isNs |-> TRUE,
     podsExpanded |-> TRUE, pods |-> pods]

\* tview.NewTreeNode makes a node expanded
LeafNode(text) ==
    [text |-> text, expanded |-> TRUE, isNs |-> FALSE,
     podsExpanded |-> FALSE, pods |-> << >>]

PlaceholderTree ==
    [text |-> PlaceholderText, via |-> NoClient, owner |-> NoOwner,
     children |-> << >>]

\* node references, as held by the tree view's current node; live says
\* that the node belongs to the tree on display
RootRef(live) ==
    [live |-> live, kind |-> "root", key |-> "", name |-> "", namespace |-> ""]

Level1Ref(node) ==
    [live |-> TRUE, kind |-> IF node.isNs THEN "ns" ELSE "leaf",
     key |-> node.text, name |-> "", namespace |-> ""]

PodRef(live, node, podMeta) ==
    [live |-> live, kind |-> "pod", key |-> node.text, name |-> podMeta.name,
     namespace |-> podMeta.namespace]

\* recordExpansionState: every node at level 1 writes its flag under its text
RecordExpansionState(expansion, existingRoot) ==
    LET level1 == existingRoot.children
        texts == {level1[i].text : i \in 1..Len(level1)}
        at(t) == (CHOOSE i \in 1..Len(level1) : level1[i].text = t)
    IN  [k \in DOMAIN expansion \cup texts |->
            IF k \in texts THEN level1[at(k)].expanded ELSE expansion[k]]

\* a build without the informational leaf
BuildTreeBare(owner, via, namespacesWithPods, expansion) ==
    LET namespaceNames == SortStrings(DOMAIN namespacesWithPods)
    IN  [text |-> RootText, via |-> via, owner |-> owner,
         children |-> [i \in 1..Len(namespaceNames) |->
                          [text |-> namespaceNames[i],
                           expanded |-> IF namespaceNames[i] \in DOMAIN expansion
                                        THEN expansion[namespaceNames[i]]
                                        ELSE FALSE,
                           isNs |-> TRUE, podsExpanded |-> TRUE,
                           pods |-> namespacesWithPods[namespaceNames[i]]]]]

\* the build loop of updatePodTreeView
BuildTree(owner, via, namespacesWithPods, expansion) ==
    LET namespaceNames == SortStrings(DOMAIN namespacesWithPods)
        nsNode(nsName) ==
            NsNode(nsName,
                   IF nsName \in DOMAIN expansion THEN expansion[nsName]
                   ELSE FALSE,
                   namespacesWithPods[nsName])
        children == [i \in 1..Len(namespaceNames) |-> nsNode(namespaceNames[i])]
    IN  [text |-> RootText, via |-> via, owner |-> owner,
         children |-> IF Len(children) = 0 THEN <<LeafNode(NoMatchText)>>
                      ELSE children]

\* findPodNode: the index of the namespace node and of the pod node in it,
\* <<0, 0>> when nothing is found.  A node whose text is the namespace is
\* searched and nothing below it; below a node with another text no node
\* has a "Pods" child with pod references.
FindPodNode(rootNode, namespace, podName) ==
    IF rootNode.text = namespace THEN <<0, 0>>
    ELSE LET level1 == rootNode.children
             hits == UNION {{<<i, j>> : j \in {x \in 1..Len(level1[i].pods) :
                                  /\ level1[i].pods[x].namespace = namespace
                                  /\ level1[i].pods[x].name = podName}} :
                            i \in {y \in 1..Len(level1) :
                                      level1[y].text = namespace}}
         IN  IF hits = {} THEN <<0, 0>>
             ELSE CHOOSE h \in hits :
                     \A g \in hits : h[1] < g[1] \/ (h[1] = g[1] /\ h[2] <= g[2])

\* a restore that expands nothing
RestoreExpandNone(rootNode, namespace, podName) == rootNode

\* restorePreviousSelection, the tree part: the found pod's "Pods" node and
\* namespace node are expanded
RestoreExpand(rootNode, namespace, podName) ==
    LET hit == FindPodNode(rootNode, namespace, podName)
    IN  IF podName # "" /\ namespace # "" /\ hit[1] # 0
        THEN [rootNode EXCEPT !.children[hit[1]].podsExpanded = TRUE,
                              !.children[hit[1]].expanded = TRUE]
        ELSE rootNode

\* a restore that falls back to the first pod of the tree
RestoreCurrentSibling(cur, live, rootNode, namespace, podName) ==
    LET hit == FindPodNode(rootNode, namespace, podName)
        first == rootNode.children[1]
    IN  IF podName # "" /\ namespace # ""
        THEN IF hit[1] # 0
             THEN PodRef(live, rootNode.children[hit[1]],
                         rootNode.children[hit[1]].pods[hit[2]])
             ELSE IF first.isNs THEN PodRef(live, first, first.pods[1])
             ELSE RootRef(live)
        ELSE cur

\* restorePreviousSelection, the current node: the found pod node, else the
\* root; with no previous pod the current node stays as it is
RestoreCurrent(cur, live, rootNode, namespace, podName) ==
    LET hit == FindPodNode(rootNode, namespace, podName)
    IN  IF podName # "" /\ namespace # ""
        THEN IF hit[1] # 0
             THEN PodRef(live, rootNode.children[hit[1]],
                         rootNode.children[hit[1]].pods[hit[2]])
             ELSE RootRef(live)
        ELSE cur

(***************************************************************************)
(* State.                                                                  *)
(***************************************************************************)
VARIABLES
    ready,                    \* k8sClientsReady is closed
    clients,                  \* the context the published handles belong to
    selectedContext,
    ctxEnabled,               \* the context dropdown has its options
    nsEnabled,                \* the namespace dropdown has its options
    conn,                     \* the goroutines of loadContexts and of
                              \* contextSelectHandler
    inputs,                   \* key presses and ticker ticks handled so far
    fetchIn,                  \* a pod map and a query given to the filter of
                              \* fetchNamespacesWithPods taken on its own,
    fetchOut,                 \* and what the filter made of them
    mu,                       \* state.mu: the function that holds it
    at,                       \* the mutex taken on its own: how many of its
                              \* operations each function has done,
    acc,                      \* and the operation done last
    config,                   \* the pod actions taken on their own: which
                              \* clients the kubeconfig lets NewForConfig make,
    metricsClient,            \* the context of the published metrics client
    isPodHighlighted,
    node,                     \* the pod the current node refers to
    focus,                    \* the view that has the focus
    useNewTerminal,
    modalActive,
    modal,                    \* the container modal: its buttons and the
                              \* command its done function runs
    ran,                      \* the kubectl command run last
    runs,                     \* how many commands have been run
    keys,                     \* key presses handled so far
    lastRefreshed,            \* the refresh stamp taken on its own: the
                              \* clock reading stored in state.lastRefreshed,
    helperText,               \* the stamp the helper text shows,
    now,                      \* the clock,
    refresher,                \* and the goroutines of 'r' and of the ticker
    selectedNamespace,
    searchText,               \* the text of searchInput
    timer,                    \* the debounce timer is pending
    secondSection,            \* the text of the output panel
    namespaceExpansionState,
    root,                     \* treeView's root
    current,                  \* treeView's current node
    task,                     \* the running calls of updatePodTreeView
    prev                      \* history: what the last call of
                              \* updatePodTreeView returned and left, while
                              \* nothing else has happened since

sessVars == <<ready, clients, selectedContext, ctxEnabled, nsEnabled, conn>>
uiVars == <<selectedNamespace, searchText, timer, secondSection>>
treeVars == <<root, current>>
fetchVars == <<fetchIn, fetchOut>>
lockVars == <<mu, at, acc>>
\* the variables of the parts of the program that are taken on their own
actVars == <<config, metricsClient, isPodHighlighted, node, focus,
             useNewTerminal, modalActive, modal, ran, runs, keys>>
stampVars == <<lastRefreshed, helperText, now, refresher>>
partVars == <<fetchVars, lockVars, actVars, stampVars>>
vars == <<sessVars, uiVars, namespaceExpansionState, treeVars, task, prev,
          inputs, partVars>>

TaskIds == 0..MaxBg
Loop == 0
BgIds == 1..MaxBg
ConnIds == 0..MaxSwitch

\* the search texts the operator types
Queries == {"", "WEB"}

NoPrev == [ret |-> "none", valid |-> FALSE]

\* the last call returned r
Returned(r) == [ret |-> r, valid |-> FALSE]

IdleTask ==
    [pc |-> "idle", kind |-> "", query |-> "", selNs |-> "", selName |-> "",
     scope |-> "", nsVia |-> NoClient, via |-> NoClient,
     answers |-> EmptyMap, result |-> EmptyMap]

\* was: the context selected before the handler stored its option, kept
\* while the connect is under way
IdleConn == [pc |-> "idle", ctx |-> "", was |-> ""]

\* the filter taken on its own has no input and has not run
NoFetchIn == [pods |-> EmptyMap, query |-> ""]
NoFetchOut == [done |-> FALSE, pods |-> EmptyMap]

\* the program after initializeApp and initializeUI
Program ==
    /\ ready = FALSE
    /\ clients = NoClient
    /\ selectedContext = ""
    /\ ctxEnabled = FALSE
    /\ nsEnabled = FALSE
    /\ conn = [c \in ConnIds |-> IF c = 0 THEN [pc |-> "config", ctx |-> "", was |-> ""]
                                 ELSE IdleConn]
    /\ inputs = 0
    /\ selectedNamespace = ""
    /\ searchText = ""
    /\ timer = FALSE
    /\ secondSection = OutputText
    /\ namespaceExpansionState = [k \in {} |-> FALSE]
    /\ root = PlaceholderTree
    /\ current = RootRef(TRUE)
    /\ task = [t \in TaskIds |-> IdleTask]
    /\ prev = NoPrev

\* the functions that use the mutex or the fields it is there for
LockThreads ==
    {"loadContexts", "contextSelectHandler", "updatePodTreeView",
     "handlePodSelection"}

Unlocked == "unlocked"
NoAccess == [thread |-> "", op |-> "", field |-> "", held |-> FALSE]

\* nobody holds the mutex and no function has started
LockStart ==
    /\ mu = Unlocked
    /\ at = [th \in LockThreads |-> 0]
    /\ acc = NoAccess

\* every client can be made
GoodConfig == [cs |-> TRUE, dc |-> TRUE, mc |-> TRUE]

\* a node that refers to no pod
NoNode == [name |-> "", namespace |-> ""]

NoModal == [verb |-> "", pod |-> NoNode, buttons |-> << >>]

NoCommand ==
    [verb |-> "", name |-> "", namespace |-> "", container |-> "",
     target |-> ""]

\* the goroutines that set the refresh stamp
Refreshers == {"r", "tick"}

IdleRefresher == [pc |-> "idle", err |-> ""]

\* initializeApp stores the time of the start, initializeUI shows it, and
\* no refresh is running
StampStart ==
    /\ lastRefreshed = 0
    /\ helperText = 0
    /\ now = 0
    /\ refresher = [g \in Refreshers |-> IdleRefresher]

\* no pod is highlighted, the output goes to the panel, no modal is shown
\* and no command has been run
ActionsStart ==
    /\ metricsClient = NoClient
    /\ isPodHighlighted = FALSE
    /\ node = NoNode
    /\ useNewTerminal = FALSE
    /\ modalActive = FALSE
    /\ modal = NoModal
    /\ ran = NoCommand
    /\ runs = 0
    /\ keys = 0

Init ==
    /\ Program
    /\ fetchIn = NoFetchIn
    /\ fetchOut = NoFetchOut
    /\ LockStart
    /\ ActionsStart
    /\ StampStart
    /\ config = GoodConfig
    /\ focus = "treeView"

LoopIdle == task[Loop].pc = "idle"

\* one more key press or tick
Input ==
    /\ inputs < MaxInputs
    /\ inputs' = inputs + 1

\* the selection a reference stands for: the pod identity, or none
SelNs(cur) == IF cur.kind = "pod" THEN cur.namespace ELSE ""
SelName(cur) == IF cur.kind = "pod" THEN cur.name ELSE ""

\* treeView.SetRoot: the nodes of the tree shown before are no longer on
\* display
SetRoot(rootNode) ==
    /\ root' = rootNode
    /\ current' = [current EXCEPT !.live = FALSE]

(***************************************************************************)
(* updatePodTreeView, one step per stretch between its I/O calls.          *)
(***************************************************************************)
\* a readiness check that lets every call pass
ClientsReadyUngated == TRUE

\* select { case <-state.k8sClientsReady: default: ... }
ClientsReady == ready

OthersIdle(t) == \A u \in TaskIds \ {t} : task[u].pc = "idle"

\* the history survives the steps of a call that runs alone
KeepPrev(t) == prev' = IF OthersIdle(t) THEN prev ELSE NoPrev

\* what the caller does once updatePodTreeView has returned:
\* namespaceSelectHandler sets the current node to the root on display
AfterCall(kind, cur) == IF kind = "nssel" THEN RootRef(TRUE) ELSE cur

\* the call up to its first API request: the readiness check, the walk
\* of the displayed tree, the capture of the selected pod; scope is
\* state.selectedNamespace as the call finds it
StartCall(t, kind, searchQuery, scope) ==
    IF ~ClientsReady
    THEN /\ current' = AfterCall(kind, current)
         /\ prev' = Returned("not initialized")
         /\ UNCHANGED <<task, namespaceExpansionState, root>>
    ELSE /\ namespaceExpansionState' =
                RecordExpansionState(namespaceExpansionState, root)
         /\ task' = [task EXCEPT ![t] =
                [pc |-> IF scope = AllNs THEN "nslist" ELSE "podlist",
                 kind |-> kind, query |-> searchQuery,
                 selNs |-> SelNs(current), selName |-> SelName(current),
                 scope |-> scope, nsVia |-> clients, via |-> clients,
                 answers |-> EmptyMap, result |-> EmptyMap]]
         /\ prev' = IF OthersIdle(t) /\ kind # "nssel" THEN prev ELSE NoPrev
         /\ UNCHANGED <<root, current>>

\* an error path that blanks the tree view before it returns
FetchFailsBlank(t) ==
    /\ task' = [task EXCEPT ![t] = IdleTask]
    /\ root' = PlaceholderTree
    /\ current' = RootRef(TRUE)
    /\ prev' = Returned("error")
    /\ UNCHANGED namespaceExpansionState

\* the call returns an error of the fetch
FetchFails(t) ==
    /\ task' = [task EXCEPT ![t] = IdleTask]
    /\ current' = AfterCall(task[t].kind, current)
    /\ prev' = Returned("error")
    /\ UNCHANGED <<namespaceExpansionState, root>>

\* scope "all": Namespaces().List answers; the pod lists are then asked
\* for through the dynamic client as it is now
NsListAnswer(t) ==
    /\ task[t].pc = "nslist"
    /\ \E ok \in BOOLEAN :
          IF ok
          THEN /\ task' = [task EXCEPT ![t].pc = "podlists", ![t].via = clients]
               /\ KeepPrev(t)
               /\ UNCHANGED <<namespaceExpansionState, root, current>>
          ELSE FetchFails(t)
    /\ UNCHANGED <<sessVars, uiVars>>
    /\ UNCHANGED inputs
    /\ UNCHANGED partVars

\* an answer of the pod list API: a list, or an error
Answers(ctx, ns) ==
    {[err |-> FALSE, items |-> l] : l \in PodListAnswers(ctx, ns)}
        \cup {[err |-> TRUE, items |-> << >>]}

\* the rest of the call after the fetch: filter, build, SetRoot; answers
\* are the API's answers the map was collected from
Publish(t, answers, namespacesWithPods) ==
    LET result == FilterByQuery(namespacesWithPods, task[t].query)
    IN  /\ SetRoot(BuildTree(t, task[t].via, result, namespaceExpansionState))
        /\ task' = [task EXCEPT ![t].pc = "rooted", ![t].answers = answers,
                                ![t].result = result]
        /\ KeepPrev(t)
        /\ UNCHANGED namespaceExpansionState

\* the pod lists answer
PodsAnswer(t) ==
    /\ \/ /\ task[t].pc = "podlist"
          /\ \E a \in Answers(task[t].via, task[t].scope) :
                IF a.err THEN FetchFails(t)
                ELSE Publish(t, [n \in {task[t].scope} |-> a],
                             CollectOne(selectedNamespace, a.items))
       \/ /\ task[t].pc = "podlists"
          /\ LET names == Range(NamespaceList(task[t].via))
             IN  \E f \in [names -> UNION {Answers(task[t].via, n) : n \in names}] :
                    /\ \A n \in names : f[n] \in Answers(task[t].via, n)
                    /\ Publish(t, f, CollectAll(
                           [n \in {x \in names : ~f[x].err} |-> f[n].items]))
    /\ UNCHANGED <<sessVars, uiVars>>
    /\ UNCHANGED inputs
    /\ UNCHANGED partVars

\* the task's local rootNode is the tree on display
OnDisplay(t) == root.owner = t

\* the task's local rootNode: the displayed tree, or the tree it built
\* and another SetRoot has replaced since
OwnTree(t) ==
    IF OnDisplay(t) THEN root
    ELSE BuildTree(t, task[t].via, task[t].result, namespaceExpansionState)

\* SetCurrentNode(rootNode), restorePreviousSelection, return nil
Finish(t) ==
    /\ task[t].pc = "rooted"
    /\ LET restored == RestoreExpand(OwnTree(t), task[t].selNs, task[t].selName)
           cur == RestoreCurrent(RootRef(OnDisplay(t)), OnDisplay(t), restored,
                                 task[t].selNs, task[t].selName)
       IN  /\ root' = IF OnDisplay(t) THEN [restored EXCEPT !.owner = NoOwner]
                      ELSE root
           /\ current' = AfterCall(task[t].kind, cur)
           /\ prev' = IF OthersIdle(t)
                      THEN [ret |-> "nil", valid |-> TRUE,
                            result |-> task[t].result,
                            wasNs |-> task[t].selNs,
                            wasName |-> task[t].selName,
                            exp |-> namespaceExpansionState,
                            selNs |-> SelNs(current'),
                            selName |-> SelName(current')]
                      ELSE Returned("nil")
    /\ task' = [task EXCEPT ![t] = IdleTask]
    /\ UNCHANGED <<sessVars, uiVars, namespaceExpansionState>>
    /\ UNCHANGED inputs
    /\ UNCHANGED partVars

(***************************************************************************)
(* The triggers of a refresh.                                              *)
(***************************************************************************)
\* 'r': go func() { updatePodTreeView(searchInput.GetText()) ... }()
ManualRefresh ==
    /\ LoopIdle
    /\ Input
    /\ \E t \in BgIds :
          /\ task[t].pc = "idle"
          /\ StartCall(t, "refresh", searchText, selectedNamespace)
    /\ UNCHANGED <<sessVars, uiVars>>
    /\ UNCHANGED partVars

\* a ticker that lets every tick pass
TickGateOpen == TRUE

\* periodicPodRefresh: select { case <-state.k8sClientsReady: default:
\* continue }
TickGate == ready

\* a tick that refreshes whatever option is selected
TickScopedAlways == TRUE

\* if selectedNamespaceLocal == "Select a namespace" { return }
TickScoped == selectedNamespace # PlaceholderNs

\* the ticker of periodicPodRefresh: a tick before the clients are ready is
\* skipped; else a goroutine reads the dropdown's option on the interactive
\* loop, returns if it is the placeholder, and else calls updatePodTreeView
PeriodicTick ==
    /\ Input
    /\ IF ~TickGate
       THEN UNCHANGED <<sessVars, uiVars, namespaceExpansionState, treeVars,
                        task, prev>>
       ELSE /\ nsEnabled
            /\ IF ~TickScoped
               THEN UNCHANGED <<sessVars, uiVars, namespaceExpansionState,
                                treeVars, task, prev>>
               ELSE /\ \E t \in BgIds :
                          /\ task[t].pc = "idle"
                          /\ StartCall(t, "refresh", searchText,
                                       selectedNamespace)
                    /\ UNCHANGED <<sessVars, uiVars>>
    /\ UNCHANGED partVars

\* searchInput's changed callback: the debounced update is (re)armed
SearchEdit ==
    /\ LoopIdle
    /\ Input
    /\ \E q \in Queries \ {searchText} : searchText' = q
    /\ timer' = TRUE
    /\ prev' = NoPrev
    /\ UNCHANGED <<sessVars, selectedNamespace, secondSection,
                   namespaceExpansionState, treeVars, task>>
    /\ UNCHANGED partVars

\* a timer that fires again and again once armed
DebounceFireRepeats ==
    /\ timer
    /\ LoopIdle
    /\ timer' = TRUE
    /\ StartCall(Loop, "search", searchText, selectedNamespace)
    /\ UNCHANGED <<sessVars, selectedNamespace, searchText, secondSection>>
    /\ UNCHANGED inputs
    /\ UNCHANGED partVars

\* the debounce timer fires: QueueUpdateDraw runs updatePodTreeView on the
\* interactive loop
DebounceFire ==
    /\ timer
    /\ LoopIdle
    /\ timer' = FALSE
    /\ StartCall(Loop, "search", searchText, selectedNamespace)
    /\ UNCHANGED <<sessVars, selectedNamespace, searchText, secondSection>>
    /\ UNCHANGED inputs
    /\ UNCHANGED partVars

\* Enter in the search field: updatePodTreeView on the interactive loop
SearchEnter ==
    /\ LoopIdle
    /\ Input
    /\ StartCall(Loop, "enter", searchText, selectedNamespace)
    /\ UNCHANGED <<sessVars, uiVars>>
    /\ UNCHANGED partVars

\* namespaceSelectHandler with the placeholder option: the placeholder tree
SelectPlaceholder ==
    /\ selectedNamespace' = PlaceholderNs
    /\ searchText' = ""
    /\ timer' = TRUE
    /\ root' = PlaceholderTree
    /\ current' = RootRef(TRUE)
    /\ secondSection' = OutputText
    /\ prev' = NoPrev
    /\ UNCHANGED <<namespaceExpansionState, task>>

\* a selection that fetches with the query in the search field
SelectQueryTyped == searchText

\* err := state.updatePodTreeView("")
SelectQuery == ""

\* namespaceSelectHandler: the operator picks an option of the dropdown
NamespaceSelect ==
    /\ nsEnabled
    /\ LoopIdle
    /\ Input
    /\ \E option \in {PlaceholderNs, AllNs} \cup Range(NamespaceList(clients)) :
          IF option = PlaceholderNs
          THEN SelectPlaceholder
          ELSE /\ selectedNamespace' = option
               /\ searchText' = ""
               /\ timer' = TRUE
               /\ StartCall(Loop, "nssel", SelectQuery, option)
               /\ secondSection' = IF option = AllNs THEN WarningText
                                                    ELSE OutputText
    /\ UNCHANGED sessVars
    /\ UNCHANGED partVars

(***************************************************************************)
(* The operator in the tree view.                                          *)
(***************************************************************************)
\* the nodes of the displayed tree the operator moves to: the root, a
\* namespace node, a pod node under expanded ancestors
VisibleRefs ==
    LET level1 == root.children
        open == {i \in 1..Len(level1) : level1[i].isNs /\ level1[i].expanded}
    IN  {RootRef(TRUE)}
          \cup {Level1Ref(level1[i]) : i \in {x \in 1..Len(level1) : level1[x].isNs}}
          \cup UNION {{PodRef(TRUE, level1[i], level1[i].pods[j]) :
                         j \in 1..Len(level1[i].pods)} :
                      i \in {x \in open : level1[x].podsExpanded}}

\* arrow keys in the tree view
UserMove ==
    /\ LoopIdle
    /\ Input
    /\ \E r \in VisibleRefs \ {current} : current' = r
    /\ prev' = NoPrev
    /\ UNCHANGED <<sessVars, uiVars, namespaceExpansionState, root, task>>
    /\ UNCHANGED partVars

\* a toggle that flips the node's flag and stores nothing
ToggleNamespaceUnstored ==
    /\ LoopIdle
    /\ Input
    /\ \E i \in {x \in 1..Len(root.children) : root.children[x].isNs} :
          /\ root' = [root EXCEPT !.children[i].expanded =
                                     ~root.children[i].expanded]
          /\ current' = Level1Ref(root.children[i])
    /\ prev' = NoPrev
    /\ UNCHANGED <<sessVars, uiVars, namespaceExpansionState, task>>
    /\ UNCHANGED partVars

\* the operator moves to a namespace node on display and presses Enter:
\* the node's selected function flips the flag and stores it
ToggleNamespace ==
    /\ LoopIdle
    /\ Input
    /\ \E i \in {x \in 1..Len(root.children) : root.children[x].isNs} :
          LET flag == ~root.children[i].expanded
          IN  /\ root' = [root EXCEPT !.children[i].expanded = flag]
              /\ current' = Level1Ref(root.children[i])
              /\ namespaceExpansionState' =
                     MapPut(namespaceExpansionState, root.children[i].text, flag)
    /\ prev' = NoPrev
    /\ UNCHANGED <<sessVars, uiVars, task>>
    /\ UNCHANGED partVars

(***************************************************************************)
(* Sessions: loadContexts (goroutine 0) and contextSelectHandler.          *)
(***************************************************************************)
\* loadContexts: the kubeconfig is read and the current context stored; on
\* the interactive loop the context dropdown gets its options and its
\* current option, which calls contextSelectHandler with the current
\* context: the option is stored and a goroutine started
LoadConfig ==
    /\ conn[0].pc = "config"
    /\ \E ok \in BOOLEAN :
          IF ok
          THEN /\ LoopIdle
               /\ selectedContext' = "A"
               /\ ctxEnabled' = TRUE
               /\ \E c \in ConnIds \ {0} :
                     /\ conn[c].pc = "idle"
                     /\ conn' = [conn EXCEPT
                            ![0] = [pc |-> "handshake", ctx |-> "A",
                                    was |-> ""],
                            ![c] = [pc |-> "handshake", ctx |-> "",
                                    was |-> "A"]]
          ELSE /\ conn' = [conn EXCEPT ![0] = IdleConn]
               /\ UNCHANGED <<selectedContext, ctxEnabled>>
    /\ prev' = NoPrev
    /\ UNCHANGED <<ready, clients, nsEnabled, uiVars,
                   namespaceExpansionState, treeVars, task>>
    /\ UNCHANGED inputs
    /\ UNCHANGED partVars

\* loadContexts: the clients are made, published under the lock, and the
\* ready channel is closed
InitialConnect ==
    /\ conn[0].pc = "handshake"
    /\ \E ok \in BOOLEAN :
          IF ok
          THEN /\ clients' = conn[0].ctx
               /\ ready' = TRUE
               /\ conn' = [conn EXCEPT ![0].pc = "loadns"]
          ELSE /\ conn' = [conn EXCEPT ![0] = IdleConn]
               /\ UNCHANGED <<clients, ready>>
    /\ prev' = NoPrev
    /\ UNCHANGED <<selectedContext, ctxEnabled, nsEnabled, uiVars,
                   namespaceExpansionState, treeVars, task>>
    /\ UNCHANGED inputs
    /\ UNCHANGED partVars

\* contextSelectHandler: the operator picks another context; the option is
\* stored and a goroutine started
ContextSelect ==
    /\ ctxEnabled
    /\ LoopIdle
    /\ Input
    /\ \E option \in Contexts \ {selectedContext}, c \in ConnIds \ {0} :
          /\ conn[c].pc = "idle"
          /\ selectedContext' = option
          /\ conn' = [conn EXCEPT ![c] = [pc |-> "handshake", ctx |-> "",
                                          was |-> selectedContext]]
    /\ prev' = NoPrev
    /\ UNCHANGED <<ready, clients, ctxEnabled, nsEnabled, uiVars,
                   namespaceExpansionState, treeVars, task>>
    /\ UNCHANGED partVars

\* a connect that makes a new, open ready channel for its session
SwitchConnectRearm(c) ==
    /\ c # 0
    /\ conn[c].pc = "handshake"
    /\ \E ok \in BOOLEAN :
          IF ok
          THEN /\ clients' = selectedContext
               /\ ready' = FALSE
               /\ conn' = [conn EXCEPT ![c] = [pc |-> "loadns",
                                               ctx |-> selectedContext,
                                               was |-> ""]]
          ELSE /\ conn' = [conn EXCEPT ![c] = IdleConn]
               /\ UNCHANGED <<clients, ready>>
    /\ prev' = NoPrev
    /\ UNCHANGED <<selectedContext, ctxEnabled, nsEnabled,
                   uiVars, namespaceExpansionState, treeVars, task>>
    /\ UNCHANGED inputs
    /\ UNCHANGED partVars

\* contextSelectHandler's goroutine: the clients for state.selectedContext,
\* as it is now, are made and published under the lock
SwitchConnect(c) ==
    /\ c # 0
    /\ conn[c].pc = "handshake"
    /\ \E ok \in BOOLEAN :
          IF ok
          THEN /\ clients' = selectedContext
               /\ conn' = [conn EXCEPT ![c] = [pc |-> "loadns",
                                               ctx |-> selectedContext,
                                               was |-> ""]]
          ELSE /\ conn' = [conn EXCEPT ![c] = IdleConn]
               /\ UNCHANGED clients
    /\ prev' = NoPrev
    /\ UNCHANGED <<ready, selectedContext, ctxEnabled, nsEnabled,
                   uiVars, namespaceExpansionState, treeVars, task>>
    /\ UNCHANGED inputs
    /\ UNCHANGED partVars

\* loadNamespaces: the namespace list answers; on success the interactive
\* loop sets the dropdown's options and its current option to 0, which
\* calls namespaceSelectHandler with the placeholder.  Back in the
\* goroutine of contextSelectHandler the expansion map is replaced by an
\* empty one.
LoadNamespaces(c) ==
    /\ conn[c].pc = "loadns"
    /\ \E ok \in BOOLEAN :
          IF ok
          THEN /\ LoopIdle
               /\ nsEnabled' = TRUE
               /\ selectedNamespace' = PlaceholderNs
               /\ searchText' = ""
               /\ timer' = TRUE
               /\ root' = PlaceholderTree
               /\ current' = RootRef(TRUE)
               /\ secondSection' = OutputText
          ELSE UNCHANGED <<nsEnabled, uiVars, treeVars>>
    /\ namespaceExpansionState' =
          IF c = 0 THEN namespaceExpansionState ELSE [k \in {} |-> FALSE]
    /\ conn' = [conn EXCEPT ![c] = IF c = 0 THEN IdleConn
                                   ELSE [pc |-> "final", ctx |-> conn[c].ctx,
                                         was |-> ""]]
    /\ prev' = NoPrev
    /\ UNCHANGED <<ready, clients, selectedContext, ctxEnabled, task>>
    /\ UNCHANGED inputs
    /\ UNCHANGED partVars

\* contextSelectHandler's goroutine, at its end: the interactive loop sets
\* the namespace dropdown to option 0
ResetDropdown(c) ==
    /\ c # 0
    /\ conn[c].pc = "final"
    /\ LoopIdle
    /\ IF nsEnabled
       THEN SelectPlaceholder
       ELSE /\ prev' = NoPrev
            /\ UNCHANGED <<uiVars, treeVars, namespaceExpansionState, task>>
    /\ conn' = [conn EXCEPT ![c] = IdleConn]
    /\ UNCHANGED <<ready, clients, selectedContext, ctxEnabled, nsEnabled>>
    /\ UNCHANGED inputs
    /\ UNCHANGED partVars

(***************************************************************************)
(* The filter of fetchNamespacesWithPods on its own: maps as the fetch     *)
(* leaves them (no namespace with an empty list) and queries as typed.     *)
(***************************************************************************)
FetchNamespaces == {"a", "b", "web"}

FetchLists(ns) ==
    CASE ns = "a" -> {<<PodRecord("a", "web-1"), PodRecord("a", "web-2")>>,
                      <<PodRecord("a", "web-1")>>,
                      <<PodRecord("a", "Web-2"), PodRecord("a", "web-1")>>}
      [] ns = "b" -> {<<PodRecord("b", "cache-1")>>}
      [] ns = "web" -> {<<PodRecord("web", "api-1")>>}

FetchMaps ==
    UNION {{m \in [D -> UNION {FetchLists(n) : n \in D}] :
               \A n \in D : m[n] \in FetchLists(n)} :
           D \in SUBSET FetchNamespaces}

FetchQueries == {"", "web", "WEB", "we", "a", "1", "zz"}

InitFetch ==
    /\ Program
    /\ fetchIn \in [pods : FetchMaps, query : FetchQueries]
    /\ fetchOut = NoFetchOut
    /\ LockStart
    /\ ActionsStart
    /\ StampStart
    /\ config = GoodConfig
    /\ focus = "treeView"

\* if searchQuery != "" { ... }
FilterStep ==
    /\ ~fetchOut.done
    /\ fetchOut' = [done |-> TRUE,
                    pods |-> FilterByQuery(fetchIn.pods, fetchIn.query)]
    /\ UNCHANGED <<sessVars, uiVars, namespaceExpansionState, treeVars, task,
                   prev, inputs, fetchIn, lockVars, actVars, stampVars>>

NextFetch == FilterStep

SpecFetch == InitFetch /\ [][NextFetch]_vars

(***************************************************************************)
(* The mutex on its own: for each function that uses state.mu or a field   *)
(* it is there for, the operations it does on them, in program order:      *)
(* Lock and Unlock, a read or a write of a field, the start of an I/O      *)
(* call.  The functions run as goroutines and interleave freely; Lock      *)
(* waits while another function holds the mutex.                           *)
(***************************************************************************)
Op(op, field) == [op |-> op, field |-> field]

\* Lock, write the three handles, Unlock (loadContexts,
\* contextSelectHandler)
PublishHandles ==
    <<Op("lock", ""), Op("write", "clientset"), Op("write", "dynamicClient"),
      Op("write", "metricsClient"), Op("unlock", "")>>

\* loadNamespaces up to its API call
LoadNamespacesOps ==
    <<Op("lock", ""), Op("read", "clientset"), Op("unlock", ""),
      Op("io", "namespace list")>>

\* the connect of loadContexts and of contextSelectHandler's goroutine:
\* the selected context is stored and read back, the clients are made
ConnectOps ==
    <<Op("write", "selectedContext"), Op("read", "selectedContext"),
      Op("io", "handshake")>>

\* recordExpansionState, fetchNamespacesWithPods in scope "all" with
\* fetchPodMetadataList, the build
UpdateTreeOps ==
    <<Op("write", "namespaceExpansionState"),
      Op("read", "selectedNamespace"),
      Op("read", "clientset"), Op("io", "namespace list"),
      Op("read", "dynamicClient"), Op("io", "pod list"),
      Op("read", "namespaceExpansionState")>>

\* getPodMetrics with the mutex released only when it returns
GetPodMetricsDeferredOps ==
    <<Op("lock", ""), Op("read", "metricsClient"), Op("io", "metrics get"),
      Op("unlock", "")>>

\* getPodMetrics: the handle is copied under the mutex, then used
GetPodMetricsOps ==
    <<Op("lock", ""), Op("read", "metricsClient"), Op("unlock", ""),
      Op("io", "metrics get")>>

LockCode(thread) ==
    CASE thread = "loadContexts" ->
           ConnectOps \o PublishHandles \o LoadNamespacesOps
      [] thread = "contextSelectHandler" ->
           ConnectOps \o PublishHandles \o LoadNamespacesOps
              \o <<Op("write", "namespaceExpansionState")>>
      [] thread = "updatePodTreeView" -> UpdateTreeOps
      [] thread = "handlePodSelection" ->
           \* getPodMetrics, then the pod is fetched
           GetPodMetricsOps
              \o <<Op("read", "clientset"), Op("io", "pod get")>>

\* the function th does its next operation
LockStep(th) ==
    /\ at[th] < Len(LockCode(th))
    /\ LET o == LockCode(th)[at[th] + 1]
           after == CASE o.op = "lock" -> th
                      [] o.op = "unlock" -> Unlocked
                      [] OTHER -> mu
       IN  /\ o.op = "lock" => mu = Unlocked
           /\ mu' = after
           /\ acc' = [thread |-> th, op |-> o.op, field |-> o.field,
                      held |-> after = th]
    /\ at' = [at EXCEPT ![th] = at[th] + 1]
    /\ UNCHANGED <<sessVars, uiVars, namespaceExpansionState, treeVars, task,
                   prev, inputs, fetchVars, actVars, stampVars>>

InitLock ==
    /\ Program
    /\ fetchIn = NoFetchIn
    /\ fetchOut = NoFetchOut
    /\ LockStart
    /\ ActionsStart
    /\ StampStart
    /\ config = GoodConfig
    /\ focus = "treeView"

NextLock == \E th \in LockThreads : LockStep(th)

SpecLock == InitLock /\ [][NextLock]_vars

(***************************************************************************)
(* The pod actions on their own: the connect with its three clients, the   *)
(* highlighted pod, the key handler of the application, the container      *)
(* modal and the target of the output.  The tree is left out: a highlight  *)
(* names the pod the current node refers to.                               *)
(***************************************************************************)
MaxKeys == 4

Views == {"treeView", "searchInput", "secondSection"}

\* the pods there are to highlight
Pods == {PodRecord("a", "web-1"), PodRecord("a", "web-2")}

\* pod.Spec.Containers
Containers(podName) ==
    CASE podName = "web-1" -> <<"app">>
      [] podName = "web-2" -> <<"app", "sidecar">>
      [] OTHER -> << >>

\* the keys of the application's input capture that are followed here
Keys == {"o", "s", "y", "i", "l", "t", "e", "Left", "Right"}

\* the texts of the output panel
TerminalText == "Output now in new terminal windows"
PanelText == "Output now in this window"
NoPodText == "No pod is highlighted."
MetricsErrorText == "Error fetching metrics for pod"
NotFoundText == "Pod not found."
PodErrorText == "Error fetching pod details"
KeyNotFoundText == "[red]Pod not found.[-]"
KeyPodErrorText == "[red]Error fetching pod details"
DetailsText == "pod details"
CommandErrorText == "Error running command"
OutputOf(verb) == "output of kubectl " \o verb

\* the variables of the program the pod actions leave alone
restVars ==
    <<selectedContext, ctxEnabled, selectedNamespace, searchText, timer,
      namespaceExpansionState, treeVars, task, prev, inputs, fetchVars,
      lockVars, stampVars>>

\* a connect that returns when any of the three clients cannot be made
ConnectsWithMetrics(made) == made.cs /\ made.dc /\ made.mc

\* loadContexts returns when the clientset or the dynamic client cannot be
\* made; the error of metrics.NewForConfig is not a return
Connects(made) == made.cs /\ made.dc

\* loadContexts from its NewForConfig calls on: the handles are published,
\* the ready channel is closed, and loadNamespaces fills the dropdown
Connect ==
    /\ conn[0].pc = "config"
    /\ conn' = [conn EXCEPT ![0] = IdleConn]
    /\ IF Connects(config)
       THEN /\ clients' = "A"
            /\ metricsClient' = IF config.mc THEN "A" ELSE NoClient
            /\ ready' = TRUE
            /\ \E ok \in BOOLEAN :
                  /\ nsEnabled' = ok
                  /\ secondSection' = IF ok THEN OutputText ELSE secondSection
       ELSE UNCHANGED <<clients, metricsClient, ready, nsEnabled,
                        secondSection>>
    /\ UNCHANGED <<config, isPodHighlighted, node, focus, useNewTerminal,
                   modalActive, modal, ran, runs, keys>>
    /\ UNCHANGED restVars

\* one more key press
Key ==
    /\ keys < MaxKeys
    /\ keys' = keys + 1

\* getPodMetrics: an error without a metrics client, else what the
\* metrics API answers
PodMetricsAnswers == IF metricsClient = NoClient THEN {"error"}
                     ELSE {"ok", "error"}

\* Pods(namespace).Get
PodAnswers == {"ok", "notfound", "error"}

\* handlePodSelection
HandlePodSelection(n) ==
    IF n = NoNode
    THEN /\ isPodHighlighted' = FALSE
         /\ secondSection' = NoPodText
         /\ UNCHANGED focus
    ELSE \E metrics \in PodMetricsAnswers, pod \in PodAnswers :
            IF metrics = "error"
            THEN /\ isPodHighlighted' = TRUE
                 /\ secondSection' = MetricsErrorText
                 /\ UNCHANGED focus
            ELSE CASE pod = "notfound" ->
                        /\ isPodHighlighted' = FALSE
                        /\ secondSection' = NotFoundText
                        /\ focus' = "treeView"
                   [] pod = "error" ->
                        /\ isPodHighlighted' = TRUE
                        /\ secondSection' = PodErrorText
                        /\ UNCHANGED focus
                   [] OTHER ->
                        /\ isPodHighlighted' = TRUE
                        /\ secondSection' = DetailsText
                        /\ UNCHANGED focus

\* the operator moves in the tree view to another node: the tree view's
\* changed function calls handlePodSelection.  Pod nodes are there once a
\* fetch has answered, that is after the connect.
Highlight ==
    /\ ~modalActive
    /\ focus = "treeView"
    /\ Key
    /\ \E n \in (Pods \cup {NoNode}) \ {node} :
          /\ n # NoNode => ready
          /\ node' = n
          /\ HandlePodSelection(n)
    /\ UNCHANGED <<config, metricsClient, useNewTerminal, modalActive, modal,
                   ran, runs>>
    /\ UNCHANGED <<ready, clients, nsEnabled, conn>>
    /\ UNCHANGED restVars

\* a command that always writes to the output panel
OutputTargetPanel(verb, newTerminal) ==
    IF verb \in {"tail", "exec"} THEN "terminal" ELSE "panel"

\* where a command's output goes: runTailLogsInTerminal and
\* runExecInTerminal call runInTerminal; runYamlCommand, runDescribeCommand
\* and runLogsCommand ask state.useNewTerminal
OutputTarget(verb, newTerminal) ==
    IF verb \in {"tail", "exec"} THEN "terminal"
    ELSE IF newTerminal THEN "terminal" ELSE "panel"

\* run...Command: the kubectl command is run in a new terminal window, or
\* with bash, its output (or its error) set as the panel's text
Run(verb, pod, container) ==
    LET target == OutputTarget(verb, useNewTerminal)
    IN  /\ ran' = [verb |-> verb, name |-> pod.name,
                   namespace |-> pod.namespace, container |-> container,
                   target |-> target]
        /\ runs' = runs + 1
        /\ IF target = "panel"
           THEN secondSection' \in {OutputOf(verb), CommandErrorText}
           ELSE UNCHANGED secondSection

\* showContainerSelectionModal: a button for every container and "Cancel"
ShowContainerSelectionModal(verb, pod, containers) ==
    /\ modal' = [verb |-> verb, pod |-> pod,
                 buttons |-> containers \o <<"Cancel">>]
    /\ modalActive' = TRUE
    /\ UNCHANGED <<ran, runs, secondSection, focus>>

\* logs, tail and exec of a pod: the modal when it has more containers
\* than one, else the command with its only container
ContainerCommand(verb, pod, containers, after) ==
    IF Len(containers) > 1
    THEN ShowContainerSelectionModal(verb, pod, containers)
    ELSE /\ Run(verb, pod, containers[1])
         /\ focus' = after
         /\ UNCHANGED <<modal, modalActive>>

\* KeyRight and KeyLeft; any other key is left to the focused view
Arrow(key) ==
    /\ focus' = CASE key = "Right" -> "secondSection"
                  [] key = "Left" -> "treeView"
                  [] OTHER -> focus
    /\ UNCHANGED <<isPodHighlighted, secondSection, useNewTerminal,
                   modalActive, modal, ran, runs>>

\* the application's input capture with a pod highlighted: the pod is
\* read from the API, then the key decides
PodKey(key) ==
    \E pod \in PodAnswers :
       CASE pod = "notfound" ->
              /\ secondSection' = KeyNotFoundText
              /\ isPodHighlighted' = FALSE
              /\ focus' = "treeView"
              /\ UNCHANGED <<useNewTerminal, modalActive, modal, ran, runs>>
         [] pod = "error" ->
              /\ secondSection' = KeyPodErrorText
              /\ UNCHANGED <<isPodHighlighted, focus, useNewTerminal,
                             modalActive, modal, ran, runs>>
         [] OTHER ->
              LET containers == Containers(node.name)
              IN  CASE key = "y" ->
                         /\ Run("yaml", node, "")
                         /\ focus' = "secondSection"
                         /\ UNCHANGED <<isPodHighlighted, useNewTerminal,
                                        modalActive, modal>>
                    [] key = "i" ->
                         /\ Run("describe", node, "")
                         /\ focus' = "secondSection"
                         /\ UNCHANGED <<isPodHighlighted, useNewTerminal,
                                        modalActive, modal>>
                    [] key = "l" ->
                         /\ ContainerCommand("logs", node, containers,
                                             "secondSection")
                         /\ UNCHANGED <<isPodHighlighted, useNewTerminal>>
                    [] key = "t" ->
                         /\ ContainerCommand("tail", node, containers, focus)
                         /\ UNCHANGED <<isPodHighlighted, useNewTerminal>>
                    [] key = "e" ->
                         /\ ContainerCommand("exec", node, containers,
                                             "treeView")
                         /\ UNCHANGED <<isPodHighlighted, useNewTerminal>>
                    [] OTHER -> Arrow(key)

\* an input capture that handles the key while the modal is shown
KeyPressInModal(key) ==
    /\ TRUE
    /\ Key
    /\ CASE key = "o" ->
              /\ useNewTerminal' = ~useNewTerminal
              /\ secondSection' = IF ~useNewTerminal THEN TerminalText
                                                     ELSE PanelText
              /\ UNCHANGED <<isPodHighlighted, focus, modalActive, modal,
                             ran, runs>>
         [] key = "s" ->
              /\ focus' = "searchInput"
              /\ UNCHANGED <<isPodHighlighted, secondSection, useNewTerminal,
                             modalActive, modal, ran, runs>>
         [] OTHER ->
              IF focus = "searchInput"
              THEN UNCHANGED <<isPodHighlighted, focus, secondSection,
                               useNewTerminal, modalActive, modal, ran, runs>>
              ELSE IF isPodHighlighted /\ node # NoNode
                   THEN PodKey(key)
                   ELSE Arrow(key)
    /\ UNCHANGED <<config, metricsClient, node>>
    /\ UNCHANGED <<ready, clients, nsEnabled, conn>>
    /\ UNCHANGED restVars

\* an input capture that does not ask whether a pod is highlighted
KeyPressUnflagged(key) ==
    /\ ~modalActive
    /\ Key
    /\ CASE key = "o" ->
              /\ useNewTerminal' = ~useNewTerminal
              /\ secondSection' = IF ~useNewTerminal THEN TerminalText
                                                     ELSE PanelText
              /\ UNCHANGED <<isPodHighlighted, focus, modalActive, modal,
                             ran, runs>>
         [] key = "s" ->
              /\ focus' = "searchInput"
              /\ UNCHANGED <<isPodHighlighted, secondSection, useNewTerminal,
                             modalActive, modal, ran, runs>>
         [] OTHER ->
              IF focus = "searchInput"
              THEN UNCHANGED <<isPodHighlighted, focus, secondSection,
                               useNewTerminal, modalActive, modal, ran, runs>>
              ELSE IF node # NoNode
                   THEN PodKey(key)
                   ELSE Arrow(key)
    /\ UNCHANGED <<config, metricsClient, node>>
    /\ UNCHANGED <<ready, clients, nsEnabled, conn>>
    /\ UNCHANGED restVars

\* the application's input capture while no modal is shown
KeyPress(key) ==
    /\ ~modalActive
    /\ Key
    /\ CASE key = "o" ->
              /\ useNewTerminal' = ~useNewTerminal
              /\ secondSection' = IF ~useNewTerminal THEN TerminalText
                                                     ELSE PanelText
              /\ UNCHANGED <<isPodHighlighted, focus, modalActive, modal,
                             ran, runs>>
         [] key = "s" ->
              /\ focus' = "searchInput"
              /\ UNCHANGED <<isPodHighlighted, secondSection, useNewTerminal,
                             modalActive, modal, ran, runs>>
         [] OTHER ->
              IF focus = "searchInput"
              THEN UNCHANGED <<isPodHighlighted, focus, secondSection,
                               useNewTerminal, modalActive, modal, ran, runs>>
              ELSE IF isPodHighlighted /\ node # NoNode
                   THEN PodKey(key)
                   ELSE Arrow(key)
    /\ UNCHANGED <<config, metricsClient, node>>
    /\ UNCHANGED <<ready, clients, nsEnabled, conn>>
    /\ UNCHANGED restVars

\* the modal's done function: a button is pressed, or Escape, for which
\* tview calls it with index -1 and an empty label
ModalDone(buttonLabel) ==
    /\ modalActive
    /\ Key
    /\ IF buttonLabel # "Cancel"
       THEN Run(modal.verb, modal.pod, buttonLabel)
       ELSE UNCHANGED <<ran, runs, secondSection>>
    /\ modalActive' = FALSE
    /\ modal' = NoModal
    /\ focus' = "treeView"
    /\ UNCHANGED <<config, metricsClient, isPodHighlighted, node,
                   useNewTerminal>>
    /\ UNCHANGED <<ready, clients, nsEnabled, conn>>
    /\ UNCHANGED restVars

\* the kubeconfig may let any of the three clients fail, and any view may
\* have the focus
InitActions ==
    /\ Program
    /\ fetchIn = NoFetchIn
    /\ fetchOut = NoFetchOut
    /\ LockStart
    /\ ActionsStart
    /\ StampStart
    /\ config \in [cs : BOOLEAN, dc : BOOLEAN, mc : BOOLEAN]
    /\ focus \in Views

NextActions ==
    \/ Connect
    \/ Highlight
    \/ \E key \in Keys : KeyPress(key)
    \/ \E buttonLabel \in Range(modal.buttons) \cup {""} : ModalDone(buttonLabel)

SpecActions == InitActions /\ [][NextActions]_vars

(***************************************************************************)
(* The refresh stamp on its own: the connect, the option of the namespace  *)
(* dropdown, the clock, and the goroutines of 'r' and of the ticker with   *)
(* what updatePodTreeView returns to them.  The tree is left out.          *)
(***************************************************************************)
MaxNow == 2

\* the variables of the program the refresh stamp leaves alone
stampRest ==
    <<sessVars, searchText, timer, secondSection, namespaceExpansionState,
      treeVars, task, prev, inputs, fetchVars, lockVars, actVars>>

\* a second passes
ClockTick ==
    /\ now < MaxNow
    /\ now' = now + 1
    /\ UNCHANGED <<lastRefreshed, helperText, refresher, selectedNamespace>>
    /\ UNCHANGED stampRest

\* the operator changes the option of the namespace dropdown
OptionSelect ==
    /\ nsEnabled
    /\ \E option \in {PlaceholderNs, "a"} \ {selectedNamespace} :
          selectedNamespace' = option
    /\ UNCHANGED stampVars
    /\ UNCHANGED stampRest

\* what a call of updatePodTreeView can return: the "not initialized"
\* error before the ready channel is closed, else nil or the error of the
\* fetch
UpdateReturns ==
    IF ~ready THEN {NotInitializedText} ELSE {"", "fetch error"}

\* case 'r', 'R': go func() { err := state.updatePodTreeView(...) ...
RefreshKey ==
    /\ refresher["r"].pc = "idle"
    /\ \E err \in UpdateReturns :
          refresher' = [refresher EXCEPT !["r"] = [pc |-> "returned",
                                                   err |-> err]]
    /\ UNCHANGED <<lastRefreshed, helperText, now, selectedNamespace>>
    /\ UNCHANGED stampRest

\* the ticker's goroutine, after the gate: the placeholder makes it return,
\* else it calls updatePodTreeView
RefreshTick ==
    /\ refresher["tick"].pc = "idle"
    /\ TickGate
    /\ nsEnabled
    /\ TickScoped
    /\ \E err \in UpdateReturns :
          refresher' = [refresher EXCEPT !["tick"] = [pc |-> "returned",
                                                      err |-> err]]
    /\ UNCHANGED <<lastRefreshed, helperText, now, selectedNamespace>>
    /\ UNCHANGED stampRest

\* what follows the call: the goroutine of 'r' has an empty error branch
\* and goes on, the ticker's returns on an error
StampsOnError(g) == g = "r"

\* state.lastRefreshed = time.Now().Format("15:04:05")
Stamp(g) ==
    /\ refresher[g].pc = "returned"
    /\ IF refresher[g].err = "" \/ StampsOnError(g)
       THEN /\ lastRefreshed' = now
            /\ refresher' = [refresher EXCEPT ![g].pc = "stamped"]
       ELSE /\ refresher' = [refresher EXCEPT ![g] = IdleRefresher]
            /\ UNCHANGED lastRefreshed
    /\ UNCHANGED <<helperText, now, selectedNamespace>>
    /\ UNCHANGED stampRest

\* state.app.QueueUpdateDraw(func() { state.updateHelperText() })
UpdateHelperText(g) ==
    /\ refresher[g].pc = "stamped"
    /\ helperText' = lastRefreshed
    /\ refresher' = [refresher EXCEPT ![g] = IdleRefresher]
    /\ UNCHANGED <<lastRefreshed, now, selectedNamespace>>
    /\ UNCHANGED stampRest

InitStamp ==
    /\ Program
    /\ fetchIn = NoFetchIn
    /\ fetchOut = NoFetchOut
    /\ LockStart
    /\ ActionsStart
    /\ StampStart
    /\ config = GoodConfig
    /\ focus = "treeView"

NextStamp ==
    \/ Connect
    \/ ClockTick
    \/ OptionSelect
    \/ RefreshKey
    \/ RefreshTick
    \/ \E g \in Refreshers : Stamp(g)
    \/ \E g \in Refreshers : UpdateHelperText(g)

SpecStamp == InitStamp /\ [][NextStamp]_vars

(***************************************************************************)
(* The program.                                                            *)
(***************************************************************************)
Next ==
    \/ LoadConfig
    \/ InitialConnect
    \/ ContextSelect
    \/ \E c \in ConnIds : SwitchConnect(c)
    \/ \E c \in ConnIds : LoadNamespaces(c)
    \/ \E c \in ConnIds : ResetDropdown(c)
    \/ ManualRefresh
    \/ PeriodicTick
    \/ SearchEdit
    \/ DebounceFire
    \/ SearchEnter
    \/ NamespaceSelect
    \/ UserMove
    \/ ToggleNamespace
    \/ \E t \in TaskIds : NsListAnswer(t)
    \/ \E t \in TaskIds : PodsAnswer(t)
    \/ \E t \in TaskIds : Finish(t)

Spec == Init /\ [][Next]_vars

(***************************************************************************)
(* Properties.                                                             *)
(***************************************************************************)
\* a step in which a handler calls updatePodTreeView straight away (the
\* ticker makes no call before the clients are ready)
Calls == ManualRefresh \/ DebounceFire \/ SearchEnter

\* a step in which namespaceSelectHandler stores the option, clears the
\* search text and then calls updatePodTreeView
SelectCalls == NamespaceSelect /\ selectedNamespace' # PlaceholderNs

\* C1 Readiness gating: a call of updatePodTreeView made before the ready
\* channel is closed returns the "not initialized" error in the same step,
\* without waiting for an API answer, and leaves the displayed root, the
\* current node, the expansion map, the namespace scope and the search
\* text as they were when it was called.
C1_ReadinessGating ==
    [][((Calls \/ SelectCalls) /\ ~ready) =>
          /\ prev'.ret = "not initialized"
          /\ task' = task
          /\ root' = root
          /\ current' = current
          /\ namespaceExpansionState' = namespaceExpansionState
          /\ Calls => /\ selectedNamespace' = selectedNamespace
                      /\ searchText' = searchText
          /\ SelectCalls => searchText' = ""]_vars

\* a call has just returned "not initialized" while the clients are not ready
C1_Witness == ~ready /\ prev.ret = "not initialized" /\ inputs > 0

\* the step of task t in which its new tree replaces the displayed root
Replaces(t) ==
    /\ task[t].pc \in {"podlist", "podlists"}
    /\ task'[t].pc = "rooted"

\* C2 Stale-result discard: the displayed tree is never replaced by a tree
\* whose pods were listed through handles that are no longer the published
\* ones; the result of a fetch that a context switch has overtaken is
\* dropped.
C2_StaleResultDiscard ==
    [][\A t \in TaskIds : Replaces(t) => root'.via = clients]_vars

\* no call of updatePodTreeView is running
Quiescent == \A t \in TaskIds : task[t].pc = "idle"

\* C3 Serialized application: root and current node are replaced together
\* on the interactive loop, so whenever no reconciliation is running the
\* current node is a node of the displayed tree, set by the same
\* reconciliation (or handler) that set the root.
C3_SerializedApplication == Quiescent => current.live

\* the namespaces there are
ClusterNamespaces == UNION {Range(NamespaceList(ctx)) : ctx \in Contexts}

\* the namespace nodes of a tree that are expanded
ExpandedNs(tree) ==
    {tree.children[i].text :
        i \in {x \in 1..Len(tree.children) :
                  tree.children[x].isNs /\ tree.children[x].expanded}}

\* C4 Expansion preservation: when a reconciliation replaces the displayed
\* tree, every namespace whose node was expanded in the tree it replaces
\* and that is in the new fetch result has an expanded node in the new tree.
C4_ExpansionPreservation ==
    [][\A t \in TaskIds :
          Replaces(t) =>
             \A n \in ClusterNamespaces \cap ExpandedNs(root) :
                n \in DOMAIN task'[t].result => n \in ExpandedNs(root')]_vars

\* the pod (namespace, podName) is listed in the fetch result under its
\* namespace
Contained(result, namespace, podName) ==
    /\ namespace \in DOMAIN result
    /\ \E j \in 1..Len(result[namespace]) :
          result[namespace][j] = PodRecord(namespace, podName)

\* the step in which the call of task t returns after replacing the tree
Returns(t) == task[t].pc = "rooted" /\ task'[t].pc = "idle"

\* the call of task t found a pod node focused when it started
HadPod(t) == task[t].selName # "" /\ task[t].selNs # ""

\* C5 Selection fallback: when a pod was focused before a reconciliation
\* and the new fetch result does not list it, the call returns with the
\* current node on the root of the tree it built: not on a pod, and on the
\* displayed tree whenever that tree is the one it built.
C5_SelectionFallback ==
    [][\A t \in TaskIds :
          (/\ Returns(t)
           /\ HadPod(t)
           /\ ~Contained(task[t].result, task[t].selNs, task[t].selName)) =>
             /\ current'.kind = "root"
             /\ OnDisplay(t) => current'.live]_vars

\* a reconciliation has just returned: web-2 of namespace a was focused,
\* the new result lists web-1 only, and the current node is the root
C5_Witness ==
    /\ prev.valid
    /\ prev.wasNs = "a" /\ prev.wasName = "web-2"
    /\ prev.result = [n \in {"a"} |-> <<PodRecord("a", "web-1")>>]
    /\ current = RootRef(TRUE)

\* C6 Selection re-location: when a pod was focused before a reconciliation
\* and the new fetch result lists it, the call returns with the current
\* node on the pod node of that identity in the tree it built, and with
\* the pod's namespace node and "Pods" node expanded, whatever the flag in
\* the expansion map.  (namespaceSelectHandler then moves the current node
\* to the root.)
C6_SelectionRelocation ==
    [][\A t \in TaskIds :
          (/\ Returns(t)
           /\ HadPod(t)
           /\ Contained(task[t].result, task[t].selNs, task[t].selName)) =>
             /\ task[t].kind # "nssel" =>
                   current' = [live |-> OnDisplay(t), kind |-> "pod",
                               key |-> task[t].selNs, name |-> task[t].selName,
                               namespace |-> task[t].selNs]
             /\ OnDisplay(t) =>
                   \E i \in 1..Len(root'.children) :
                      /\ root'.children[i].text = task[t].selNs
                      /\ root'.children[i].expanded
                      /\ root'.children[i].podsExpanded]_vars

\* a reconciliation has just returned: the focused pod is listed again and
\* is the current node, under an expanded namespace node for which the
\* expansion map holds no true flag
C6_Witness ==
    /\ prev.valid
    /\ prev.wasName # ""
    /\ Contained(prev.result, prev.wasNs, prev.wasName)
    /\ current.live /\ current.kind = "pod"
    /\ current.name = prev.wasName /\ current.namespace = prev.wasNs
    /\ prev.wasNs \in ExpandedNs(root)
    /\ \/ prev.wasNs \notin DOMAIN namespaceExpansionState
       \/ ~namespaceExpansionState[prev.wasNs]

\* what "contains, ignoring case" means, letter by letter
SameLetter(c, d) ==
    c = d \/ {c, d} \in {{"w", "W"}, {"e", "E"}, {"b", "B"}, {"s", "S"}}

NameHas(name, q) ==
    \E i \in 0..(Len(Chars(name)) - Len(Chars(q))) :
       \A k \in 1..Len(Chars(q)) : SameLetter(Chars(name)[i + k], Chars(q)[k])

\* C7 Search filtering: for a non-empty query the filtered result holds, for
\* each namespace, exactly the pods whose name contains the query ignoring
\* case, in their order; the namespace name plays no part, and a namespace
\* without such a pod is not in the result.
C7_SearchFiltering ==
    (fetchOut.done /\ fetchIn.query # "") =>
       /\ DOMAIN fetchOut.pods =
             {n \in DOMAIN fetchIn.pods :
                 \E j \in 1..Len(fetchIn.pods[n]) :
                    NameHas(fetchIn.pods[n][j].name, fetchIn.query)}
       /\ \A n \in DOMAIN fetchOut.pods :
             fetchOut.pods[n] =
                SelectSeq(fetchIn.pods[n],
                          LAMBDA podMeta : NameHas(podMeta.name, fetchIn.query))

\* {a: [Web-2, web-1], b: [cache-1], web: [api-1]} filtered with "WEB" has
\* given {a: [Web-2, web-1]}
C7_Witness ==
    /\ fetchOut.done
    /\ fetchIn.query = "WEB"
    /\ DOMAIN fetchIn.pods = {"a", "b", "web"}
    /\ fetchIn.pods["a"] = <<PodRecord("a", "Web-2"), PodRecord("a", "web-1")>>
    /\ fetchOut.pods = [n \in {"a"} |-> fetchIn.pods["a"]]

\* C8 No empty namespace: every namespace node of a tree that a
\* reconciliation has put on display has at least one pod node under its
\* "Pods" node.
C8_NoEmptyNamespace ==
    \A i \in 1..Len(root.children) :
       root.children[i].isNs => Len(root.children[i].pods) >= 1

\* a reconciliation of scope "all" with the query "WEB" has just returned:
\* namespace a is shown with its pods and namespace b, without a matching
\* pod, is not shown
C8_Witness ==
    /\ prev.valid
    /\ selectedNamespace = AllNs /\ searchText = "WEB"
    /\ root.text = RootText
    /\ Len(root.children) = 1
    /\ root.children[1].isNs /\ root.children[1].text = "a"
    /\ Len(root.children[1].pods) = 2

\* C9 Empty result leaf: when a fetch succeeds with no namespace, the tree
\* the call puts on display has the leaf "No matching pods found" as its
\* only child, and the call returns with the current node on the root.
C9_EmptyResultLeaf ==
    [][\A t \in TaskIds :
          /\ (Replaces(t) /\ task'[t].result = EmptyMap) =>
                root'.children = <<LeafNode(NoMatchText)>>
          /\ (Returns(t) /\ task[t].result = EmptyMap) =>
                /\ current'.kind = "root"
                /\ OnDisplay(t) =>
                      /\ current'.live
                      /\ root'.children = <<LeafNode(NoMatchText)>>]_vars

\* a reconciliation with the query "WEB" in namespace b has just returned:
\* the tree is the root with the leaf, the current node is the root
C9_Witness ==
    /\ prev.valid
    /\ prev.result = EmptyMap
    /\ selectedNamespace = "b" /\ searchText = "WEB"
    /\ root.text = RootText
    /\ root.children = <<LeafNode(NoMatchText)>>
    /\ current = RootRef(TRUE)

\* the flag the build reads from the expansion map for a name: no entry
\* reads as collapsed
Flag(expansion, name) == name \in DOMAIN expansion /\ expansion[name]

\* C10 Idempotence of reconciliation: when a call of updatePodTreeView
\* returns, the call before it has run alone and returned, nothing but
\* this call has happened since, and both fetched the same result, then
\* the expansion map holds the same flags (an entry that says collapsed
\* counting as no entry) and the selected pod (or the root) is the same
\* as the call before left them.
C10_Idempotence ==
    [][(prev.valid /\ prev'.valid /\ prev' # prev
                  /\ prev'.result = prev.result) =>
          /\ \A name \in DOMAIN prev.exp \cup DOMAIN prev'.exp :
                Flag(prev'.exp, name) = Flag(prev.exp, name)
          /\ prev'.selNs = prev.selNs
          /\ prev'.selName = prev.selName]_vars

\* C11 Partial failure in scope "all": whichever pod lists fail, the fetch
\* succeeds (the call goes on to replace the tree), and its result holds
\* exactly the namespaces whose list was answered with at least one pod
\* matching the query, each with those pods; only namespaces whose list
\* failed, or that have no such pod, are missing.
C11_PartialFailure ==
    [][\A t \in TaskIds :
          (task[t].pc = "podlists" /\ task'[t] # task[t]) =>
             /\ task'[t].pc = "rooted"
             /\ LET f == task'[t].answers
                    kept(n) == IF task[t].query = "" THEN f[n].items
                               ELSE SelectSeq(f[n].items,
                                       LAMBDA podMeta :
                                          NameHas(podMeta.name, task[t].query))
                IN  /\ DOMAIN f = Range(NamespaceList(task[t].via))
                    /\ DOMAIN task'[t].result =
                          {n \in DOMAIN f : ~f[n].err /\ Len(kept(n)) > 0}
                    /\ \A n \in DOMAIN task'[t].result :
                          task'[t].result[n] = kept(n)]_vars

\* a fetch of scope "all" has succeeded although the pod list of namespace
\* a failed: the tree on display shows namespace b alone
C11_Witness ==
    \E t \in TaskIds :
       /\ task[t].pc = "rooted"
       /\ task[t].scope = AllNs
       /\ task[t].answers["a"].err
       /\ ~task[t].answers["b"].err
       /\ DOMAIN task[t].result = {"b"}
       /\ OnDisplay(t)
       /\ Len(root.children) = 1 /\ root.children[1].text = "b"

\* C12 Single-namespace failure: when the scope is one namespace and its
\* pod list fails, the call returns the error in that step, and neither
\* this step nor the step that started the call changes the displayed root
\* or the current node.  (namespaceSelectHandler, which ignores the error,
\* then moves the current node to the displayed root.)
C12_SingleNamespaceFailure ==
    [][\A t \in TaskIds :
          /\ (task[t].pc = "idle" /\ task'[t].pc = "podlist") =>
                root' = root /\ current' = current
          /\ (task[t].pc = "podlist" /\ task'[t].pc = "idle") =>
                /\ prev'.ret = "error"
                /\ root' = root
                /\ task[t].kind # "nssel" => current' = current
                /\ task[t].kind = "nssel" => current' = RootRef(TRUE)]_vars

\* the refresh of namespace a has just failed: the tree of a is still on
\* display and the pod web-1 is still the current node
C12_Witness ==
    /\ prev.ret = "error"
    /\ Quiescent
    /\ selectedNamespace = "a"
    /\ root.text = RootText
    /\ current = [live |-> TRUE, kind |-> "pod", key |-> "a",
                  name |-> "web-1", namespace |-> "a"]

\* C13 Failed connect: when the connect of a context switch fails, the
\* published handles are not changed, and the selected context is again
\* the one it was before the switch was requested.
C13_FailedConnectUntouched ==
    [][\A c \in ConnIds \ {0} :
          (conn[c].pc = "handshake" /\ conn'[c].pc = "idle") =>
             /\ clients' = clients
             /\ selectedContext' = conn[c].was]_vars

\* no connect is under way: every goroutine of loadContexts and of
\* contextSelectHandler has published its handles or given up
ConnectsDone == \A c \in ConnIds : conn[c].pc \notin {"config", "handshake"}

\* C14 Successful connect makes the session ready: once no connect is under
\* way and one of them has published handles, the ready channel is closed,
\* so that a fetch no longer returns "not initialized"; also when the
\* connect of loadContexts failed and a later one succeeded.
C14_ConnectMakesReady == (ConnectsDone /\ clients # NoClient) => ready

\* C15 One-shot readiness: the ready channel goes from open to closed in
\* one step only, the guarded close of loadContexts, and a closed channel
\* stays closed whatever connects follow; so it is closed at most once and
\* a readiness check, once it has answered ready, answers ready for ever.
C15_OneShotReadiness ==
    [][/\ ready => ready'
       /\ ready' # ready =>
             conn[0].pc = "handshake" /\ conn'[0].pc = "loadns"]_vars

\* the clients are ready and a later connect of a context switch has
\* published the handles of context B
C15_Witness == ready /\ clients = "B" /\ ConnectsDone

\* C16 Newest context wins: handles that belong to the context selected
\* last are not overwritten by the connect of an earlier selection.
C16_NewestContextWins ==
    [][clients = selectedContext => clients' = clients]_vars

\* C20 Periodic tick before ready: a tick that fires while the ready
\* channel is open starts no call and no fetch and changes nothing: session,
\* dropdowns, search text, timer, expansion map, tree, current node and
\* running calls are as before, and no call has returned an error.
C20_TickBeforeReady ==
    [][(PeriodicTick /\ ~ready) =>
          UNCHANGED <<sessVars, uiVars, namespaceExpansionState, treeVars,
                      task, prev>>]_vars

\* the kubeconfig is not yet read and every input so far was a tick: the
\* program is as it was after construction
C20_Witness ==
    /\ ~ready
    /\ conn[0].pc = "config"
    /\ inputs = MaxInputs
    /\ prev = NoPrev /\ ~timer /\ searchText = ""

\* the step starts a call of updatePodTreeView for the debouncer
DebouncedCallStarts ==
    /\ task[Loop].pc = "idle"
    /\ task'[Loop].pc # "idle"
    /\ task'[Loop].kind = "search"

\* C19 Debounced search: an edit of the search text leaves one timer
\* pending, whether or not one was pending before; the debouncer calls
\* updatePodTreeView only when the pending timer fires, with the text as
\* the last edit left it, and the fire uses the timer up: a burst of edits
\* made while the timer is pending is followed by one call, and no
\* further call is made for it.
C19_DebouncedSearch ==
    [][/\ SearchEdit => timer'
       /\ DebounceFire =>
             /\ timer /\ ~timer'
             /\ searchText' = searchText
             /\ ready => DebouncedCallStarts /\ task'[Loop].query = searchText
       /\ DebouncedCallStarts => timer /\ ~timer']_vars

\* after a burst of edits that ended with "WEB" the timer has fired once:
\* the debouncer's call is running with "WEB" and no timer is pending
C19_Witness ==
    /\ inputs = MaxInputs
    /\ selectedNamespace = PlaceholderNs
    /\ root = PlaceholderTree
    /\ searchText = "WEB"
    /\ ~timer
    /\ task[Loop].pc # "idle"
    /\ task[Loop].kind = "search"
    /\ task[Loop].query = "WEB"

\* the fields the mutex is there for
SessionFields ==
    {"clientset", "dynamicClient", "metricsClient", "selectedNamespace",
     "namespaceExpansionState", "selectedContext"}

\* C17 Lock discipline: every read and every write of a client handle, of
\* the namespace scope, of the expansion map and of the selected context
\* is done by a function that holds the mutex.
C17_LockDiscipline ==
    (acc.op \in {"read", "write"} /\ acc.field \in SessionFields) => acc.held

\* C18 No I/O under the lock: a function that starts a network call does
\* not hold the mutex, and a function that holds the mutex has an Unlock
\* ahead of it and no network call before that Unlock.
C18_NoIoUnderLock ==
    /\ acc.op = "io" => (~acc.held /\ mu # acc.thread)
    /\ \A th \in LockThreads :
          mu = th =>
             \E j \in (at[th] + 1)..Len(LockCode(th)) :
                /\ LockCode(th)[j].op = "unlock"
                /\ \A k \in (at[th] + 1)..j : LockCode(th)[k].op # "io"

\* getPodMetrics has copied the metrics handle under the mutex and
\* released it, and starts its API call while loadContexts holds the mutex
C18_Witness ==
    /\ acc = [thread |-> "handlePodSelection", op |-> "io",
              field |-> "metrics get", held |-> FALSE]
    /\ mu = "loadContexts"


(***************************************************************************)
(* Manual refresh and the tasks the fetches run on.                        *)
(***************************************************************************)
\* C21: 'r' pressed while the clients are not ready does no fetch and
\* shows the operator a 'not initialized' message.
C21_ManualRefresh ==
    [][(ManualRefresh /\ ~ready) =>
          /\ \A t \in TaskIds : task'[t].pc = "idle"
          /\ secondSection' = NotInitializedText]_vars

\* the calls of the API that wait for their answer
Fetching == {"nslist", "podlist", "podlists"}

\* C22: no fetch is ever outstanding on the interactive loop: every
\* trigger runs its fetch on a task of its own.
C22_LoopNeverFetches == task[Loop].pc \notin Fetching


(***************************************************************************)
(* The session a fetch reads from.                                         *)
(***************************************************************************)
\* C30: the namespace list and the pod lists of one fetch come from the
\* same session, also when a context switch publishes new handles while
\* the fetch is under way.
C30_OneSessionPerFetch ==
    \A t \in TaskIds :
        task[t].pc \in {"podlists", "rooted"} => task[t].nsVia = task[t].via


(***************************************************************************)
(* The current node and the tree on display.                               *)
(***************************************************************************)
\* C29: whenever the interactive loop is free to draw or to handle a key,
\* under any interleaving of the refresh goroutines, treeView's current
\* node is the displayed root or one of its descendants.
C29_NoDanglingCurrent == LoopIdle => current.live


(***************************************************************************)
(* The order of the result.                                                *)
(***************************************************************************)
\* s is t with some of its elements left out, the rest in t's order
RECURSIVE IsSubSeq(_, _)
IsSubSeq(s, t) ==
    IF s = << >> THEN TRUE
    ELSE IF t = << >> THEN FALSE
    ELSE IF Head(s) = Head(t) THEN IsSubSeq(Tail(s), Tail(t))
    ELSE IsSubSeq(s, Tail(t))

\* C26: in every tree a reconciliation puts on display the namespace nodes
\* are in lexicographic order of their names, and the pod nodes of a
\* namespace are the pods of the API's answer that the filter kept, in the
\* order the API listed them.
C26_ResultOrdering ==
    [][\A t \in TaskIds : Replaces(t) =>
          LET level1 == root'.children
              answers == task'[t].answers
          IN  /\ \A i, j \in 1..Len(level1) :
                    i < j => StrLess(level1[i].text, level1[j].text)
              /\ \A i \in 1..Len(level1) :
                    level1[i].isNs =>
                       \E n \in DOMAIN answers :
                          /\ task[t].scope = AllNs => n = level1[i].text
                          /\ IsSubSeq(level1[i].pods, answers[n].items)]_vars

\* a tree of two namespaces is on display, one of them with two pods
C26_Witness ==
    /\ Len(root.children) = 2
    /\ \A i \in 1..2 : root.children[i].isNs
    /\ \E i \in 1..2 : Len(root.children[i].pods) = 2


(***************************************************************************)
(* The memory of the expansion flags.                                      *)
(***************************************************************************)
\* the namespace nodes of a tree
NsTexts(tree) ==
    {tree.children[i].text :
        i \in {x \in 1..Len(tree.children) : tree.children[x].isNs}}

\* C27: no reconciliation removes an entry of the expansion map, and a
\* namespace whose node is expanded when a reconciliation takes it off
\* the display is remembered as expanded, so that it is rendered expanded
\* when it appears again.
C27_ExpansionMemory ==
    [][\A t \in TaskIds :
          Replaces(t) =>
             /\ DOMAIN namespaceExpansionState
                   \subseteq DOMAIN namespaceExpansionState'
             /\ \A n \in (ClusterNamespaces \cap ExpandedNs(root))
                            \ NsTexts(root') :
                   /\ n \in DOMAIN namespaceExpansionState'
                   /\ namespaceExpansionState'[n]]_vars


\* C28: in the tree a reconciliation builds, every "Pods" node is expanded
\* and a namespace node has the flag recorded for its name in the expansion
\* map, collapsed when there is no entry; when the call returns, the only
\* flags that differ from the built ones are those of the namespace node
\* that holds the re-located selection, which is expanded.
C28_DefaultExpansion ==
    [][\A t \in TaskIds :
          /\ Replaces(t) =>
                \A i \in 1..Len(root'.children) :
                   root'.children[i].isNs =>
                      /\ root'.children[i].podsExpanded
                      /\ root'.children[i].expanded =
                            Flag(namespaceExpansionState, root'.children[i].text)
          /\ (Returns(t) /\ OnDisplay(t)) =>
                /\ Len(root'.children) = Len(root.children)
                /\ \A i \in 1..Len(root.children) :
                      \/ root'.children[i] = root.children[i]
                      \/ /\ HadPod(t)
                         /\ root.children[i].text = task[t].selNs
                         /\ Contained(task[t].result, task[t].selNs,
                                      task[t].selName)
                         /\ root'.children[i].expanded
                         /\ root'.children[i].podsExpanded]_vars

\* a reconciliation has just returned and its tree shows, collapsed, a
\* namespace for which the expansion map has no entry
C28_Witness ==
    /\ prev.valid
    /\ \E i \in 1..Len(root.children) :
          /\ root.children[i].isNs
          /\ ~root.children[i].expanded
          /\ root.children[i].text \notin DOMAIN namespaceExpansionState


(***************************************************************************)
(* The pod actions.                                                        *)
(***************************************************************************)
\* the command a key of the pod actions runs
Verb(key) ==
    CASE key = "y" -> "yaml"
      [] key = "i" -> "describe"
      [] key = "l" -> "logs"
      [] key = "t" -> "tail"
      [] key = "e" -> "exec"
      [] OTHER -> ""

\* the step runs a kubectl command
Runs == runs' = runs + 1

\* C23: when the metrics client cannot be made the connect still publishes
\* the clientset and the dynamic client and closes the ready channel, with
\* no metrics client; highlighting a pod sets isPodHighlighted (the panel
\* shows the metrics error), and with a pod highlighted the manifest,
\* describe, logs, tail and exec keys run their command on that pod (or
\* open the container modal for it), unless the pod cannot be read.
C23_MetricsNonFatal ==
    [][~config.mc =>
          /\ (Connect /\ config.cs /\ config.dc) =>
                /\ ready'
                /\ clients' = "A"
                /\ metricsClient' = NoClient
          /\ (Highlight /\ node' # NoNode) =>
                /\ isPodHighlighted'
                /\ secondSection' = MetricsErrorText
          /\ \A key \in {"y", "i", "l", "t", "e"} :
                (/\ KeyPress(key)
                 /\ isPodHighlighted
                 /\ node # NoNode
                 /\ focus # "searchInput") =>
                   \/ /\ Runs
                      /\ ran'.verb = Verb(key)
                      /\ ran'.name = node.name
                      /\ ran'.namespace = node.namespace
                   \/ /\ modalActive'
                      /\ modal'.verb = Verb(key)
                      /\ modal'.pod = node
                   \/ secondSection' \in {KeyNotFoundText, KeyPodErrorText}]_vars

\* without a metrics client the connect is done, the namespaces are
\* loaded, a pod is highlighted and exec has been run on it
C23_Witness ==
    /\ ~config.mc
    /\ ready /\ nsEnabled
    /\ metricsClient = NoClient
    /\ isPodHighlighted
    /\ ran.verb = "exec" /\ ran.name = node.name

\* C24: logs, tail-logs and exec run with a container of the pod: for a
\* pod with one container that container at once, for a pod with more the
\* container the operator chose in the modal; 'Cancel' runs nothing.
C24_ContainerSelection ==
    [][/\ (Runs /\ ran'.verb \in {"logs", "tail", "exec"}) =>
             /\ ran'.container \in Range(Containers(ran'.name))
             /\ Len(Containers(ran'.name)) > 1 => modalActive
       /\ ModalDone("Cancel") => ~Runs]_vars

\* C25: 'o' flips useNewTerminal; the manifest, describe and logs commands
\* go to a new terminal exactly when the flag is set and else put their
\* output in the panel; tail-logs and exec always go to a new terminal.
C25_OutputTarget ==
    [][/\ KeyPress("o") => useNewTerminal' = ~useNewTerminal
       /\ Runs =>
             /\ ran'.verb \in {"yaml", "describe", "logs"} =>
                   (ran'.target = "terminal") = useNewTerminal
             /\ ran'.verb \in {"tail", "exec"} => ran'.target = "terminal"
             /\ ran'.target \in {"terminal", "panel"}
             /\ IF ran'.target = "panel"
                THEN secondSection' \in {OutputOf(ran'.verb), CommandErrorText}
                ELSE secondSection' = secondSection]_vars

\* with the flag set the logs of a pod have gone to a new terminal
C25_Witness ==
    /\ useNewTerminal
    /\ ran.verb = "logs"
    /\ ran.target = "terminal"


(***************************************************************************)
(* The writers of the expansion map.                                       *)
(***************************************************************************)
\* the step in which a call of updatePodTreeView walks the displayed tree
Walks == \E t \in TaskIds : task[t].pc = "idle" /\ task'[t].pc # "idle"

\* the step in which the goroutine of contextSelectHandler replaces the map
Replaced ==
    /\ \E c \in ConnIds \ {0} : conn[c].pc = "loadns" /\ conn'[c].pc = "final"
    /\ namespaceExpansionState' = [k \in {} |-> FALSE]

\* the namespace node the step toggles
Toggled(i) ==
    /\ i \in 1..Len(root.children)
    /\ root.children[i].isNs
    /\ root'.children[i].expanded = ~root.children[i].expanded
    /\ current' = Level1Ref(root.children[i])

C32_NamespacesAfterReady == nsEnabled => ready


(***************************************************************************)
(* The periodic tick and the placeholder.                                  *)
(***************************************************************************)
\* C34: a tick that fires while the placeholder option is selected starts
\* no call and no fetch and leaves the displayed tree, the current node and
\* the expansion map as they are.
C34_NoTickWithoutNamespace ==
    [][(PeriodicTick /\ selectedNamespace = PlaceholderNs) =>
          UNCHANGED <<task, treeVars, namespaceExpansionState, uiVars,
                      prev>>]_vars

\* the clients are ready, the placeholder is selected and on display, no
\* call is running, and inputs have been handled
C34_Witness ==
    /\ ready /\ nsEnabled
    /\ selectedNamespace = PlaceholderNs
    /\ root = PlaceholderTree
    /\ Quiescent
    /\ selectedContext = "A" /\ searchText = "" /\ timer
    /\ inputs = MaxInputs


(***************************************************************************)
(* The selection of a namespace.                                           *)
(***************************************************************************)
\* the namespace nodes of the tree show the map: a node for every key, in
\* order, with the pods listed under it
Shows(tree, namespacesWithPods) ==
    IF DOMAIN namespacesWithPods = {}
    THEN Len(tree.children) = 1 /\ ~tree.children[1].isNs
    ELSE /\ Len(tree.children) = Cardinality(DOMAIN namespacesWithPods)
         /\ \A i \in 1..Len(tree.children) :
               /\ tree.children[i].isNs
               /\ tree.children[i].text \in DOMAIN namespacesWithPods
               /\ tree.children[i].pods =
                     namespacesWithPods[tree.children[i].text]

\* what the fetch collected from the API's answers, before the filter
Collected(t) ==
    [n \in {x \in DOMAIN task[t].answers :
               Len(task[t].answers[x].items) > 0} |-> task[t].answers[n].items]

TreeFor(tree, scope, query) ==
    /\ tree.text = RootText
    /\ \A i \in 1..Len(tree.children) :
          tree.children[i].isNs =>
             /\ tree.children[i].text \in
                   IF scope = AllNs THEN ClusterNamespaces ELSE {scope}
             /\ MatchingPods(tree.children[i].pods, query) =
                   tree.children[i].pods

\* C36: with the clients ready, a namespace selected, no call of
\* updatePodTreeView running and no debounce timer pending, the tree on
\* display is one built for the current scope and the current search text.
C36_QuiescentConsistency ==
    (/\ ready
     /\ selectedNamespace \notin {"", PlaceholderNs}
     /\ Quiescent
     /\ ~timer) => TreeFor(root, selectedNamespace, searchText)

\* the step opens the container modal
Opens == modalActive' /\ ~modalActive

C37_KeysAreNamespaces ==
    DOMAIN namespaceExpansionState \subseteq ClusterNamespaces

\* C39: lastRefreshed is advanced only by a goroutine whose call of
\* updatePodTreeView returned no error; a refresh of 'r' or of the ticker
\* that failed (clients not ready, error of the fetch) leaves it as it was.
C39_StampMeansSuccess ==
    [][\A g \in Refreshers :
          (Stamp(g) /\ refresher[g].err # "") =>
             lastRefreshed' = lastRefreshed]_vars

\* the step is a call of the modal's done function
Done == \E buttonLabel \in Range(modal.buttons) \cup {""} : ModalDone(buttonLabel)

SwitchDone ==
    \E c \in ConnIds \ {0} : ResetDropdown(c) /\ conn[c].ctx # ""

\* the goroutine of a context switch has published its clients and
\* replaced the expansion map, and has not ended yet
Switched(c) == c # 0 /\ conn[c].pc = "final" /\ conn[c].ctx # ""

\* C38: when a context switch that made its clients has completed, the
\* namespace dropdown is on the placeholder, and the expansion map holds no
\* entry recorded from a tree of the context before: since the map was
\* replaced by an empty one, it has been written only from the placeholder
\* tree and from trees fetched in the new context.
C38_CleanViewAfterSwitch ==
    [][/\ (SwitchDone /\ nsEnabled) => selectedNamespace' = PlaceholderNs
       /\ \A c \in ConnIds :
             (/\ Switched(c)
              /\ namespaceExpansionState' # namespaceExpansionState) =>
                root.via \in {conn[c].ctx, NoClient}]_vars

====
